---- MODULE Spec2Model ----
\* A model of the MivaBDN embed controller (src/lib/MivaBDN.ts): the iframe
\* lifecycle (constructor, init, destroy), the outbound send path (postMessage)
\* and the inbound message handler (handleMessage), together with the parts of
\* the browser the controller touches: the document (containers and their
\* children), the window's list of 'message' listeners and the delivery of a
\* message event to that list.
\*
\* The source file holds two versions of the class: the clear-and-recreate one
\* (lines 63-232) and the reuse-existing one (lines 246-353).  The variable
\* `variant` says which class the page has loaded.
EXTENDS Integers, Sequences, FiniteSets, TLC

VARIABLES
    variant,    \* "clear" (lines 63-232) or "reuse" (lines 246-353)
    sel,        \* the container the selector "#app" matches, or "none"
    ctrl,       \* the fields of every controller object
    dom,        \* the children of every container of the document
    listeners,  \* the window's 'message' listener list, in registration order
    life,       \* history of each controller: phase, init() calls, mount point
    last        \* what the last operation was and what it was observed to do

vars == <<variant, sel, ctrl, dom, listeners, life, last>>

-----------------------------------------------------------------------------
\* Bounds

\* The count of successful init() calls kept in `life` saturates here.
MaxInits == 2

-----------------------------------------------------------------------------
\* Values

Ctrls == {"A", "B"}
Containers == {"c1", "c2"}
Variants == {"clear", "reuse"}

\* A piece of text that is meant to be a URL, kept by its parts.  def = FALSE is
\* the value undefined (the option was omitted); scheme = "" is text without a
\* scheme, which the URL parser rejects.
UrlText(scheme, host, port, path) ==
    [def |-> TRUE, scheme |-> scheme, host |-> host, port |-> port,
     path |-> path, query |-> <<>>]

Omitted == [def |-> FALSE, scheme |-> "", host |-> "", port |-> "",
            path |-> "", query |-> <<>>]
EmptyText == UrlText("", "", "", "")
JunkText == UrlText("", "", "", "miva")
\* 'https://miva.bookai.com' (README, class comment) and a development
\* address with an explicit port, 'http://localhost:3000'.
ProdText == UrlText("https", "miva.bookai.com", "", "")
DevText == UrlText("http", "localhost", "3000", "")

BaseUrls == {Omitted, EmptyText, JunkText, ProdText, DevText}

\* window.location.origin of the host page
HostOrigin == "https://host.example"

\* A parsed URL (the URL object), and the absence of one.
NoUrl == [scheme |-> "", host |-> "", port |-> "", path |-> "", query |-> <<>>]

DefaultPort(scheme) ==
    IF scheme = "https" THEN "443" ELSE IF scheme = "http" THEN "80" ELSE ""

\* new URL(text): throws TypeError for undefined and for text without a scheme
\* or host; otherwise normalises the default port away and an empty path to "/".
URLParse(text) ==
    IF ~text.def \/ text.scheme = "" \/ text.host = ""
    THEN [ok |-> FALSE, url |-> NoUrl]
    ELSE [ok |-> TRUE,
          url |-> [scheme |-> text.scheme,
                   host |-> text.host,
                   port |-> IF text.port = DefaultPort(text.scheme)
                            THEN "" ELSE text.port,
                   path |-> IF text.path = "" THEN "/" ELSE text.path,
                   query |-> text.query]]

\* URL.origin: scheme://host[:port]
URLOrigin(url) ==
    url.scheme \o "://" \o url.host \o
        (IF url.port = "" THEN "" ELSE ":" \o url.port)

RECURSIVE DropKey(_, _)
DropKey(q, key) ==
    IF q = <<>> THEN <<>>
    ELSE IF Head(q)[1] = key THEN DropKey(Tail(q), key)
    ELSE <<Head(q)>> \o DropKey(Tail(q), key)

RECURSIVE SetFirst(_, _, _)
SetFirst(q, key, val) ==
    IF q = <<>> THEN <<>>
    ELSE IF Head(q)[1] = key THEN <<<<key, val>>>> \o DropKey(Tail(q), key)
    ELSE <<Head(q)>> \o SetFirst(Tail(q), key, val)

\* url.searchParams.set(key, val): replaces the first pair named key and drops
\* the others, or appends the pair when there is none.
SearchParamsSet(url, key, val) ==
    IF \E i \in 1..Len(url.query) : url.query[i][1] = key
    THEN [url EXCEPT !.query = SetFirst(url.query, key, val)]
    ELSE [url EXCEPT !.query = Append(url.query, <<key, val>>)]

\* Mount targets: a string, a live element, or a value that is neither.
StrTarget(s) == [t |-> "string", v |-> s]
ElTarget(c) == [t |-> "element", v |-> c]
OtherTarget == [t |-> "number", v |-> "42"]
Targets == {StrTarget(""), StrTarget("#app"), ElTarget("c1"), OtherTarget}

AppIds == {"", "app-1"}

\* What a host callback does when it is called: it returns, it throws, or it
\* calls destroy() on the instance it is handed.  "omitted" is an option left
\* out.
OnReadyOptions == {"omitted", "returns", "throws", "destroys"}
OnConfirmedOptions == {"omitted", "returns", "throws"}

\* Message payloads: null, or an object that may carry a status field.
NullData == [isNull |-> TRUE, hasStatus |-> FALSE, status |-> ""]
PlainData == [isNull |-> FALSE, hasStatus |-> FALSE, status |-> ""]
StatusData(s) == [isNull |-> FALSE, hasStatus |-> TRUE, status |-> s]
Undefined == "undefined"

\* data?.status
StatusOf(data) ==
    IF data.isNull THEN Undefined
    ELSE IF data.hasStatus THEN data.status ELSE Undefined

\* DOM elements.  An element is known by its id; an iframe carries its src.
NullEl == [tag |-> "null", id |-> 0, src |-> NoUrl]
DivEl == [tag |-> "div", id |-> 1, src |-> NoUrl]
ForeignIframe ==
    [tag |-> "iframe", id |-> 2,
     src |-> [scheme |-> "https", host |-> "ads.example", port |-> "",
              path |-> "/", query |-> <<>>]]

NoEvent == [origin |-> "", data |-> NullData]

-----------------------------------------------------------------------------
\* Errors

NoErr == [kind |-> "none", msg |-> ""]
MivaBDNError(msg) == [kind |-> "MivaBDNError", msg |-> msg]
\* thrown by new URL() on text it cannot parse
TypeErr == [kind |-> "TypeError", msg |-> "Invalid URL"]
\* whatever a host callback throws
HostErr == [kind |-> "HostError", msg |-> "thrown by a host callback"]

-----------------------------------------------------------------------------
\* The world an operation runs in.  An operation is a function from worlds to
\* worlds: a message handler calls a host callback, which may call destroy(),
\* all within one turn of the event loop.  calls, sent and raised collect what
\* the turn was observed to do.

World ==
    [ctrl |-> ctrl, dom |-> dom, listeners |-> listeners, life |-> life,
     calls |-> <<>>, sent |-> <<>>, raised |-> <<>>]

Range(s) == {s[i] : i \in 1..Len(s)}

\* element.parentNode, as the set of containers holding the element
ParentOf(w, el) == {c \in Containers : el.id \in {e.id : e \in Range(w.dom[c])}}

\* iframe.contentWindow is non-null exactly while the iframe is in the document
HasContentWindow(w, el) == ParentOf(w, el) # {}

RemoveEl(children, id) == SelectSeq(children, LAMBDA e : e.id # id)

UsedIds(w) ==
    UNION {{e.id : e \in Range(w.dom[c])} : c \in Containers}
        \cup {w.ctrl[k].iframeEl.id : k \in Ctrls}

\* The identity of a newly created element: the least id no element in the
\* document or held by a controller has.
FreshId(w) ==
    CHOOSE n \in 1..(Cardinality(UsedIds(w)) + 1) :
        /\ n \notin UsedIds(w)
        /\ \A m \in 1..(n - 1) : m \in UsedIds(w)

\* removeEventListener handed a function that was never registered (the
\* unbound method instead of the bound handler): nothing is removed
RemoveListenerUnbound(ls, k) == ls

\* removeEventListener handed a handler that all instances share: the entry
\* removed is the oldest one, whoever added it
RemoveListenerShared(ls, k) == IF ls = <<>> THEN ls ELSE Tail(ls)

\* window.removeEventListener('message', handler): removes the handler's entry,
\* a no-op when there is none
RemoveListener(ls, k) ==
    LET at == {i \in 1..Len(ls) : ls[i] = k} IN
    IF at = {} THEN ls
    ELSE LET first == CHOOSE i \in at : \A j \in at : i <= j IN
         SubSeq(ls, 1, first - 1) \o SubSeq(ls, first + 1, Len(ls))

\* addEventListener handed a function bound anew at every call: each call
\* adds an entry
AddListenerAgain(ls, k) == Append(ls, k)

\* window.addEventListener('message', handler): the platform ignores a
\* listener that is already in the list
AddListener(ls, k) == IF k \in Range(ls) THEN ls ELSE Append(ls, k)

\* JavaScript truthiness of the option values
TruthyText(text) == text.def /\ text # EmptyText
TruthyTarget(target) == ~(target.t = "string" /\ target.v = "")

-----------------------------------------------------------------------------
\* constructor (lines 78-87, 257-266)

Unmade ==
    [made |-> FALSE, appId |-> "", baseUrl |-> Omitted, debug |-> FALSE,
     iframeEl |-> NullEl, onConfirmed |-> "returns", onReady |-> "returns",
     origin |-> "", target |-> StrTarget("")]

\* options.onReady ?? (() => {})
CallbackOrNoop(option) == IF option = "omitted" THEN "returns" ELSE option

constructor(options) ==
    LET parsed == URLParse(options.baseUrl) IN
    IF ~parsed.ok THEN [err |-> TypeErr, obj |-> Unmade]
    ELSE [err |-> NoErr,
          obj |-> [made |-> TRUE,
                   appId |-> options.appId,
                   baseUrl |-> options.baseUrl,
                   debug |-> options.debug,
                   iframeEl |-> NullEl,
                   onConfirmed |-> CallbackOrNoop(options.onConfirmed),
                   onReady |-> CallbackOrNoop(options.onReady),
                   origin |-> URLOrigin(parsed.url),
                   target |-> options.target]]

-----------------------------------------------------------------------------
\* destroy (lines 120-130, 288-292)

\* Thrown by the runtime when a property of null is read.
NullDeref == [kind |-> "TypeError", msg |-> "Cannot read properties of null"]

Unsubscribed(w, k) ==
    [w EXCEPT !.listeners = RemoveListener(@, k),
              !.life[k].phase = "destroyed"]

\* parent.removeChild(el)
Detached(w, el) ==
    [w EXCEPT !.dom = [c \in Containers |-> RemoveEl(w.dom[c], el.id)]]

\* destroy without the null checks of line 123
destroyClearUnguarded(w, k) ==
    LET el == w.ctrl[k].iframeEl
        unsub == Unsubscribed(w, k)
    IN IF el = NullEl THEN [w |-> unsub, err |-> NullDeref]
       ELSE [w |-> [Detached(unsub, el) EXCEPT !.ctrl[k].iframeEl = NullEl],
             err |-> NoErr]

\* destroy without the assignment of line 126
destroyClearKeepsReference(w, k) ==
    LET el == w.ctrl[k].iframeEl
        unsub == Unsubscribed(w, k)
    IN [w |-> IF el # NullEl /\ ParentOf(w, el) # {}
              THEN Detached(unsub, el)
              ELSE unsub,
        err |-> NoErr]

destroyClear(w, k) ==
    LET el == w.ctrl[k].iframeEl
        unsub == Unsubscribed(w, k)
        detached ==
            IF el # NullEl /\ ParentOf(w, el) # {}
            THEN Detached(unsub, el)
            ELSE unsub
    IN [w |-> [detached EXCEPT !.ctrl[k].iframeEl = NullEl], err |-> NoErr]

destroyReuse(w, k) == [w |-> Unsubscribed(w, k), err |-> NoErr]

destroy(w, k) ==
    IF variant = "clear" THEN destroyClear(w, k) ELSE destroyReuse(w, k)

-----------------------------------------------------------------------------
\* postMessage (lines 138-146, 294-302)

\* a send addressed to any origin
OutboundWildcard(w, k, payload) ==
    [from |-> k, to |-> w.ctrl[k].iframeEl.id,
     targetOrigin |-> "*", payload |-> payload]

Outbound(w, k, payload) ==
    [from |-> k, to |-> w.ctrl[k].iframeEl.id,
     targetOrigin |-> w.ctrl[k].origin, payload |-> payload]

postMessage(w, k, payload) ==
    LET el == w.ctrl[k].iframeEl IN
    IF el = NullEl \/ ~HasContentWindow(w, el)
    THEN [w |-> w,
          err |-> MivaBDNError("Failed to post message. Iframe is not available.")]
    ELSE [w |-> [w EXCEPT !.sent = Append(@, Outbound(w, k, payload))],
          err |-> NoErr]

-----------------------------------------------------------------------------
\* resolveTarget (lines 155-167, 304-316)

\* document.querySelector(selector): "#app" matches the container sel, if any
QuerySelector(selector) == IF selector = "#app" THEN sel ELSE "none"

resolveTarget(target) ==
    IF target.t = "element" THEN [err |-> NoErr, container |-> target.v]
    ELSE IF target.t = "string"
    THEN LET container == QuerySelector(target.v) IN
         IF container = "none"
         THEN [err |-> MivaBDNError("Target element not found."),
               container |-> "none"]
         ELSE [err |-> NoErr, container |-> container]
    ELSE [err |-> MivaBDNError("Invalid target specified."),
          container |-> "none"]

-----------------------------------------------------------------------------
\* createIframe (lines 181-200, 318-333)

DebugParam(debug) == IF debug THEN "1" ELSE "0"

IframeSrc(c) ==
    SearchParamsSet(
        SearchParamsSet(
            SearchParamsSet(URLParse(c.baseUrl).url, "origin", HostOrigin),
            "appId", c.appId),
        "debug", DebugParam(c.debug))

Created(w, k) == [tag |-> "iframe", id |-> FreshId(w), src |-> IframeSrc(w.ctrl[k])]

\* createIframe that appends without clearing the container first
createIframeAppend(w, k, container) ==
    LET created == Created(w, k)
    IN [w |-> [w EXCEPT !.dom[container] = Append(@, created)],
        el |-> created]

\* container.innerHTML = ''; then create and append
createIframeClear(w, k, container) ==
    LET cleared == [w EXCEPT !.dom[container] = <<>>]
        created == Created(cleared, k)
    IN [w |-> [cleared EXCEPT !.dom[container] = Append(@, created)],
        el |-> created]

\* container.querySelector('iframe'): the first iframe under the container
FirstIframe(children) ==
    LET at == {i \in 1..Len(children) : children[i].tag = "iframe"} IN
    IF at = {} THEN NullEl
    ELSE children[CHOOSE i \in at : \A j \in at : i <= j]

createIframeReuse(w, k, container) ==
    LET existing == FirstIframe(w.dom[container])
        created == Created(w, k)
    IN IF existing # NullEl THEN [w |-> w, el |-> existing]
       ELSE [w |-> [w EXCEPT !.dom[container] = Append(@, created)],
             el |-> created]

createIframe(w, k, container) ==
    IF variant = "clear" THEN createIframeClear(w, k, container)
    ELSE createIframeReuse(w, k, container)

-----------------------------------------------------------------------------
\* init (lines 96-114, 268-286)

\* The history of a controller after a successful init() on container: the
\* count of init() calls since the last destroy(), the container mounted on,
\* and whether the controller has so far only gone through init()/destroy()
\* cycles on one and the same container.
Initialised(l, container) ==
    [phase |-> "live",
     inits |-> IF l.phase # "live" THEN 1
               ELSE IF l.inits < MaxInits THEN l.inits + 1 ELSE MaxInits,
     mount |-> container,
     cycles |-> /\ l.cycles
                /\ l.phase # "live"
                /\ l.mount \in {"none", container}]

\* init that subscribes before it validates
initSubscribesFirst(w, k) ==
    LET c == w.ctrl[k]
        sub == [w EXCEPT !.listeners = AddListener(@, k)]
    IN
    IF c.appId = ""
    THEN [w |-> sub, err |-> MivaBDNError("appId is required for initialization.")]
    ELSE IF ~TruthyText(c.baseUrl)
    THEN [w |-> sub, err |-> MivaBDNError("baseUrl is required for initialization.")]
    ELSE IF ~TruthyTarget(c.target)
    THEN [w |-> sub, err |-> MivaBDNError("target is required for initialization.")]
    ELSE LET resolved == resolveTarget(c.target) IN
         IF resolved.err # NoErr THEN [w |-> sub, err |-> resolved.err]
         ELSE LET made == createIframe(sub, k, resolved.container) IN
              [w |-> [made.w EXCEPT
                        !.ctrl[k].iframeEl = made.el,
                        !.life[k] = Initialised(@, resolved.container)],
               err |-> NoErr]

init(w, k) ==
    LET c == w.ctrl[k] IN
    IF c.appId = ""
    THEN [w |-> w, err |-> MivaBDNError("appId is required for initialization.")]
    ELSE IF ~TruthyText(c.baseUrl)
    THEN [w |-> w, err |-> MivaBDNError("baseUrl is required for initialization.")]
    ELSE IF ~TruthyTarget(c.target)
    THEN [w |-> w, err |-> MivaBDNError("target is required for initialization.")]
    ELSE LET resolved == resolveTarget(c.target) IN
         IF resolved.err # NoErr THEN [w |-> w, err |-> resolved.err]
         ELSE LET made == createIframe(w, k, resolved.container) IN
              [w |-> [made.w EXCEPT
                        !.ctrl[k].iframeEl = made.el,
                        !.listeners = AddListener(@, k),
                        !.life[k] = Initialised(@, resolved.container)],
               err |-> NoErr]

-----------------------------------------------------------------------------
\* handleMessage (lines 210-231, 335-352)

\* this.onReady(data, this) / this.onConfirmed(data, this): the call is
\* recorded, and the callback returns, throws, or calls instance.destroy().
Invoke(w, k, name) ==
    LET kind == IF name = "onReady" THEN w.ctrl[k].onReady
                ELSE w.ctrl[k].onConfirmed
        called == [w EXCEPT !.calls = Append(@, [k |-> k, cb |-> name])]
    IN IF kind = "throws" THEN [w |-> called, err |-> HostErr]
       ELSE IF kind = "destroys" THEN destroy(called, k)
       ELSE [w |-> called, err |-> NoErr]

\* handleMessage without its origin check
handleMessageAnyOrigin(w, k, event) ==
    IF StatusOf(event.data) = "ready"
    THEN LET r == Invoke(w, k, "onReady") IN
         IF r.err # NoErr THEN r
         ELSE postMessage(r.w, k, StatusData("acknowledged"))
    ELSE IF StatusOf(event.data) = "confirmed"
    THEN Invoke(w, k, "onConfirmed")
    ELSE [w |-> w, err |-> NoErr]

\* handleMessage whose 'confirmed' case calls the wrong callback
handleMessageWrongCallback(w, k, event) ==
    IF event.origin # w.ctrl[k].origin THEN [w |-> w, err |-> NoErr]
    ELSE IF StatusOf(event.data) = "ready"
    THEN LET r == Invoke(w, k, "onReady") IN
         IF r.err # NoErr THEN r
         ELSE postMessage(r.w, k, StatusData("acknowledged"))
    ELSE IF StatusOf(event.data) = "confirmed"
    THEN Invoke(w, k, "onReady")
    ELSE [w |-> w, err |-> NoErr]

\* handleMessage whose switch has 'ready' as its default case
handleMessageDefaultReady(w, k, event) ==
    IF event.origin # w.ctrl[k].origin THEN [w |-> w, err |-> NoErr]
    ELSE IF StatusOf(event.data) = "confirmed"
    THEN Invoke(w, k, "onConfirmed")
    ELSE LET r == Invoke(w, k, "onReady") IN
         IF r.err # NoErr THEN r
         ELSE postMessage(r.w, k, StatusData("acknowledged"))

\* handleMessage that acknowledges 'ready' before it calls onReady
handleMessageAckFirst(w, k, event) ==
    IF event.origin # w.ctrl[k].origin THEN [w |-> w, err |-> NoErr]
    ELSE IF StatusOf(event.data) = "ready"
    THEN LET r == postMessage(w, k, StatusData("acknowledged")) IN
         IF r.err # NoErr THEN r
         ELSE Invoke(r.w, k, "onReady")
    ELSE IF StatusOf(event.data) = "confirmed"
    THEN Invoke(w, k, "onConfirmed")
    ELSE [w |-> w, err |-> NoErr]

handleMessage(w, k, event) ==
    IF event.origin # w.ctrl[k].origin THEN [w |-> w, err |-> NoErr]
    ELSE IF StatusOf(event.data) = "ready"
    THEN LET r == Invoke(w, k, "onReady") IN
         IF r.err # NoErr THEN r
         ELSE postMessage(r.w, k, StatusData("acknowledged"))
    ELSE IF StatusOf(event.data) = "confirmed"
    THEN Invoke(w, k, "onConfirmed")
    ELSE [w |-> w, err |-> NoErr]

\* The window delivers a message event to the listeners that were registered
\* when the dispatch began, in order, skipping one removed in the meantime; an
\* exception a listener lets escape is reported to the platform and the
\* dispatch goes on.
RECURSIVE dispatch(_, _, _)
dispatch(w, snapshot, event) ==
    IF snapshot = <<>> THEN w
    ELSE LET k == Head(snapshot) IN
         IF k \notin Range(w.listeners) THEN dispatch(w, Tail(snapshot), event)
         ELSE LET r == handleMessage(w, k, event)
                  after == IF r.err = NoErr THEN r.w
                           ELSE [r.w EXCEPT
                                   !.raised = Append(@, [k |-> k, err |-> r.err])]
              IN dispatch(after, Tail(snapshot), event)

-----------------------------------------------------------------------------
\* Inputs

Options ==
    [appId : AppIds, baseUrl : BaseUrls, debug : BOOLEAN,
     onConfirmed : OnConfirmedOptions, onReady : OnReadyOptions,
     target : Targets]

\* The configurations of two controllers set up side by side: both valid,
\* each on its own address or the same, each on its own container or the same.
PairOptions ==
    [appId : {"app-1"}, baseUrl : {ProdText, DevText}, debug : {FALSE},
     onConfirmed : {"omitted"}, onReady : {"omitted"},
     target : {ElTarget("c1"), ElTarget("c2")}]

\* Origins a message event can report: those of the two application addresses.
\* Each is foreign to a controller built on the other.
EventOrigins ==
    {URLOrigin(URLParse(ProdText).url), URLOrigin(URLParse(DevText).url)}

EventData ==
    {NullData, PlainData, StatusData("ready"), StatusData("confirmed"),
     StatusData("acknowledged")}

Events == [origin : EventOrigins, data : EventData]

\* What the host passes to postMessage
HostPayloads == {NullData, StatusData("theme")}

-----------------------------------------------------------------------------
\* State

\* The record of an operation: what was called with what, what it threw, the
\* callbacks it called, the messages it sent, what its listeners let escape;
\* and, of the state it started in and the state w it ended in: each
\* controller's history, whether it held an iframe and whether that iframe had
\* a content window before the operation, and what the operation left
\* unchanged.
Observed(op, k, err, event, payload, w) ==
    [op |-> op, k |-> k, err |-> err, event |-> event, payload |-> payload,
     calls |-> w.calls, sent |-> w.sent, raised |-> w.raised,
     before |-> life,
     held |-> {c \in Ctrls : ctrl[c].iframeEl # NullEl},
     reach |-> {c \in Ctrls : HasContentWindow(World, ctrl[c].iframeEl)},
     sameCtrl |-> {c \in Ctrls : w.ctrl[c] = ctrl[c]},
     sameDom |-> (w.dom = dom),
     sameSubs |-> (w.listeners = listeners)]

Commit(w) ==
    /\ ctrl' = w.ctrl
    /\ dom' = w.dom
    /\ listeners' = w.listeners
    /\ life' = w.life

\* The page before any controller exists: #app is c1, which holds a
\* placeholder, and c2 holds an iframe that is not the controller's.
Start(v) ==
    /\ variant = v
    /\ sel = "c1"
    /\ ctrl = [k \in Ctrls |-> Unmade]
    /\ dom = [c \in Containers |->
                IF c = "c1" THEN <<DivEl>> ELSE <<ForeignIframe>>]
    /\ listeners = <<>>
    /\ life = [k \in Ctrls |->
                [phase |-> "new", inits |-> 0, mount |-> "none",
                 cycles |-> TRUE]]
    /\ last = Observed("start", "A", NoErr, NoEvent, NullData, World)

Init == Start("clear")
InitReuse == Start("reuse")

\* new MivaBDN(options)
Construct(k, options) ==
    /\ ~ctrl[k].made
    /\ LET r == constructor(options)
           w == [World EXCEPT !.ctrl[k] = r.obj]
       IN /\ Commit(w)
          /\ last' = Observed("construct", k, r.err, NoEvent, NullData, w)
    /\ UNCHANGED <<variant, sel>>

\* instance.init()
DoInit(k) ==
    /\ ctrl[k].made
    /\ LET r == init(World, k) IN
       /\ Commit(r.w)
       /\ last' = Observed("init", k, r.err, NoEvent, NullData, r.w)
    /\ UNCHANGED <<variant, sel>>

\* instance.destroy()
DoDestroy(k) ==
    /\ ctrl[k].made
    /\ LET r == destroy(World, k) IN
       /\ Commit(r.w)
       /\ last' = Observed("destroy", k, r.err, NoEvent, NullData, r.w)
    /\ UNCHANGED <<variant, sel>>

\* instance.postMessage(payload)
DoPostMessage(k, payload) ==
    /\ ctrl[k].made
    /\ LET r == postMessage(World, k, payload) IN
       /\ Commit(r.w)
       /\ last' = Observed("postMessage", k, r.err, NoEvent, payload, r.w)
    /\ UNCHANGED <<variant, sel>>

\* A message event arrives at the window.
Deliver(event) ==
    /\ LET w == dispatch(World, listeners, event) IN
       /\ Commit(w)
       /\ last' = Observed("message", "A", NoErr, event, NullData, w)
    /\ UNCHANGED <<variant, sel>>

\* The host page changes which container carries id="app", or drops the id.
Retarget(c) ==
    /\ sel # c
    /\ sel' = c
    /\ UNCHANGED <<variant, ctrl, dom, listeners, life, last>>

\* One controller, every configuration.
Next ==
    \/ \E options \in Options : Construct("A", options)
    \/ DoInit("A")
    \/ DoDestroy("A")
    \/ \E payload \in HostPayloads : DoPostMessage("A", payload)
    \/ \E event \in Events : Deliver(event)
    \/ \E c \in Containers \cup {"none"} : Retarget(c)

\* The clear-and-recreate class
Spec == Init /\ [][Next]_vars

\* The reuse-existing class
SpecReuse == InitReuse /\ [][Next]_vars

\* Two controllers on one window.
NextPair ==
    \/ \E k \in Ctrls, options \in PairOptions : Construct(k, options)
    \/ \E k \in Ctrls : DoInit(k)
    \/ \E k \in Ctrls : DoDestroy(k)
    \/ \E k \in Ctrls, payload \in HostPayloads : DoPostMessage(k, payload)
    \/ \E event \in Events : Deliver(event)

SpecPair == Init /\ [][NextPair]_vars

-----------------------------------------------------------------------------
\* Properties

\* What the last operation made controller k do
CallsBy(k, name) ==
    Cardinality({i \in 1..Len(last.calls) :
                    last.calls[i] = [k |-> k, cb |-> name]})
SentBy(k) == SelectSeq(last.sent, LAMBDA m : m.from = k)
RaisedBy(k) == SelectSeq(last.raised, LAMBDA r : r.k = k)

\* The last operation was the delivery of a message event whose origin is, or
\* is not, the trusted origin of the constructed controller k.
Delivered(k) == last.op = "message" /\ ctrl[k].made
Matching(k) == Delivered(k) /\ last.event.origin = ctrl[k].origin
Foreign(k) == Delivered(k) /\ last.event.origin # ctrl[k].origin

\* The last operation left controller k as it was: its fields (the owned
\* iframe and the trusted origin among them) and the window's listener list.
Untouched(k) == k \in last.sameCtrl /\ last.sameSubs

\* C1: a message event whose origin is not the controller's trusted origin,
\* whatever its payload, makes the controller call no callback and send no
\* message, and leaves its owned iframe, its subscription and its trusted
\* origin as they were.
C1_ForeignOriginIgnored ==
    \A k \in Ctrls :
        Foreign(k) =>
            /\ CallsBy(k, "onReady") = 0
            /\ CallsBy(k, "onConfirmed") = 0
            /\ SentBy(k) = <<>>
            /\ Untouched(k)

\* a subscribed controller that holds a mounted iframe was sent 'ready' from a
\* foreign origin, and nothing happened
C1_Witness ==
    /\ Foreign("A")
    /\ last.before["A"].phase = "live"
    /\ "A" \in Range(listeners)
    /\ "A" \in last.reach
    /\ StatusOf(last.event.data) = "ready"
    /\ last.calls = <<>>
    /\ last.sent = <<>>

\* The acknowledgment controller k sends for a 'ready' message
Acknowledgment(k, m) ==
    /\ m.from = k
    /\ m.targetOrigin = ctrl[k].origin
    /\ m.payload = StatusData("acknowledged")

\* C2: a 'ready' message from the trusted origin makes an initialised
\* controller call onReady exactly once and send exactly one acknowledgment,
\* addressed to the trusted origin.
C2_ReadyAcknowledged ==
    \A k \in Ctrls :
        (Matching(k) /\ last.before[k].phase = "live"
            /\ StatusOf(last.event.data) = "ready") =>
            /\ CallsBy(k, "onReady") = 1
            /\ Len(SentBy(k)) = 1
            /\ Acknowledgment(k, SentBy(k)[1])

\* C3: between destroy() and the next init(), a 'ready' or 'confirmed' message
\* from the trusted origin makes the controller call no callback and send no
\* acknowledgment.
C3_SilentAfterDestroy ==
    \A k \in Ctrls :
        (Matching(k) /\ last.before[k].phase = "destroyed"
            /\ StatusOf(last.event.data) \in {"ready", "confirmed"}) =>
            /\ CallsBy(k, "onReady") = 0
            /\ CallsBy(k, "onConfirmed") = 0
            /\ SentBy(k) = <<>>

\* init() was called twice, then destroy(), and then 'ready' came from the
\* trusted origin
C3_Witness ==
    /\ Matching("A")
    /\ last.before["A"].phase = "destroyed"
    /\ life["A"].inits >= 2
    /\ StatusOf(last.event.data) = "ready"
    /\ last.calls = <<>>

\* C4: destroy() never throws, and called on a controller that is not
\* initialised (never initialised, or destroyed already) it changes nothing:
\* no subscription, no owned iframe, the document as it was.
C4_DestroyIdempotent ==
    \A k \in Ctrls :
        (last.op = "destroy" /\ last.k = k) =>
            /\ last.err = NoErr
            /\ last.before[k].phase # "live" =>
                /\ Untouched(k)
                /\ last.sameDom
                /\ ctrl[k].iframeEl = NullEl
                /\ k \notin Range(listeners)

\* destroy() on a controller that was initialised and destroyed before
C4_Witness ==
    /\ last.op = "destroy"
    /\ last.k = "A"
    /\ last.before["A"].phase = "destroyed"
    /\ life["A"].inits >= 1

\* C5: an init() that fails leaves the document, the owned iframe and the
\* listener list as they were; on a controller never initialised there is then
\* no iframe and no subscription.
C5_FailedInitNoEffect ==
    \A k \in Ctrls :
        (last.op = "init" /\ last.k = k /\ last.err # NoErr) =>
            /\ last.sameDom
            /\ Untouched(k)
            /\ last.before[k].phase = "new" =>
                (ctrl[k].iframeEl = NullEl /\ k \notin Range(listeners))

\* init() failed on a controller that was initialised and held an iframe
C5_Witness ==
    /\ last.op = "init"
    /\ last.k = "A"
    /\ last.err.kind = "MivaBDNError"
    /\ last.before["A"].phase = "live"
    /\ "A" \in last.held
    /\ "A" \in Range(listeners)

\* C6: whatever construction, init() or postMessage() throws is a
\* MivaBDNError.
C6_SingleErrorKind ==
    last.op \in {"construct", "init", "postMessage"} =>
        last.err.kind \in {"none", "MivaBDNError"}

\* C7: the trusted origin of a constructed controller never changes, and
\* every message a step sends is addressed to the sender's trusted origin,
\* never to the wildcard.
C7_OriginFixed ==
    [][/\ \A k \in Ctrls :
            ctrl[k].made => (ctrl'[k].made /\ ctrl'[k].origin = ctrl[k].origin)
       /\ \A i \in 1..Len(last'.sent) :
            /\ last'.sent[i].targetOrigin = ctrl'[last'.sent[i].from].origin
            /\ last'.sent[i].targetOrigin # "*"]_vars

\* an initialised controller acknowledged a 'ready' message, addressing the
\* acknowledgment to its trusted origin
C7_Witness ==
    /\ Matching("A")
    /\ life["A"].inits >= 1
    /\ StatusOf(last.event.data) = "ready"
    /\ Len(last.sent) = 1
    /\ last.sent[1].targetOrigin = ctrl["A"].origin

\* C8: postMessage() on a controller that is not initialised, holds no iframe
\* or holds one without a content window throws MivaBDNError, sends nothing
\* and changes nothing.
C8_PostWithoutIframeRaises ==
    \A k \in Ctrls :
        (last.op = "postMessage" /\ last.k = k
            /\ (last.before[k].phase # "live" \/ k \notin last.held
                    \/ k \notin last.reach)) =>
            /\ last.err.kind = "MivaBDNError"
            /\ last.sent = <<>>
            /\ Untouched(k)
            /\ last.sameDom

\* C9: a 'confirmed' message from the trusted origin makes an initialised
\* controller call onConfirmed exactly once, not call onReady, and send
\* nothing.
C9_ConfirmedNoReply ==
    \A k \in Ctrls :
        (Matching(k) /\ last.before[k].phase = "live"
            /\ StatusOf(last.event.data) = "confirmed") =>
            /\ CallsBy(k, "onConfirmed") = 1
            /\ CallsBy(k, "onReady") = 0
            /\ SentBy(k) = <<>>

\* 'confirmed' reached an initialised controller whose onConfirmed throws
C9_Witness ==
    /\ Matching("A")
    /\ last.before["A"].phase = "live"
    /\ StatusOf(last.event.data) = "confirmed"
    /\ ctrl["A"].onConfirmed = "throws"
    /\ last.calls = <<[k |-> "A", cb |-> "onConfirmed"]>>

\* C10: a message from the trusted origin whose status is neither 'ready' nor
\* 'confirmed' (no status, a null payload, 'acknowledged') makes an
\* initialised controller call nothing, send nothing and change nothing.
C10_UnknownStatusIgnored ==
    \A k \in Ctrls :
        (Matching(k) /\ last.before[k].phase = "live"
            /\ StatusOf(last.event.data) \notin {"ready", "confirmed"}) =>
            /\ last.calls = <<>>
            /\ last.sent = <<>>
            /\ Untouched(k)
            /\ last.sameDom

\* a null payload from the trusted origin reached an initialised controller
C10_Witness ==
    /\ Matching("A")
    /\ last.before["A"].phase = "live"
    /\ "A" \in Range(listeners)
    /\ last.event.data = NullData
    /\ last.calls = <<>>

\* The iframes attached under container c
IframesIn(c) == SelectSeq(dom[c], LAMBDA e : e.tag = "iframe")

\* The iframes controller k has created that are attached to the document:
\* those that carry the address the controller gives its iframes.
OwnAttached(k) ==
    {e \in UNION {Range(dom[c]) : c \in Containers} :
        e.tag = "iframe" /\ e.src = IframeSrc(ctrl[k])}

Subscriptions(k) == Cardinality({i \in 1..Len(listeners) : listeners[i] = k})

\* C11: while a controller has only gone through init()/destroy() cycles on
\* one container, after every successful init() the container holds exactly
\* one iframe, the controller owns it, and the controller has exactly one
\* subscription; nothing of an earlier cycle is left: the controller's only
\* attached iframe is the one it owns, and after destroy() none is attached
\* and no subscription is left.
C11_CyclesReproduce ==
    \A k \in Ctrls :
        (ctrl[k].made /\ life[k].cycles) =>
            /\ life[k].phase = "live" =>
                /\ IframesIn(life[k].mount) = <<ctrl[k].iframeEl>>
                /\ OwnAttached(k) = {ctrl[k].iframeEl}
                /\ Subscriptions(k) = 1
            /\ life[k].phase = "destroyed" =>
                /\ OwnAttached(k) = {}
                /\ ctrl[k].iframeEl = NullEl
                /\ Subscriptions(k) = 0

\* the second init() of a controller that was initialised on c2, which held
\* another iframe, and then destroyed
C11_Witness ==
    /\ last.op = "init"
    /\ last.k = "A"
    /\ last.err = NoErr
    /\ last.before["A"].phase = "destroyed"
    /\ last.before["A"].mount = "c2"
    /\ life["A"].cycles
    /\ life["A"].mount = "c2"
    /\ dom["c2"] = <<ctrl["A"].iframeEl>>

\* C12: at most one iframe created by a controller is attached to the
\* document at any time, also after init() is called again without destroy()
\* and with the selector matching another container; and a successful init()
\* leaves the mount point holding the new iframe and nothing else.
C12_AtMostOneIframe ==
    \A k \in Ctrls :
        ctrl[k].made =>
            /\ Cardinality(OwnAttached(k)) <= 1
            /\ (last.op = "init" /\ last.k = k /\ last.err = NoErr) =>
                dom[life[k].mount] = <<ctrl[k].iframeEl>>

\* C13: an initialised controller has exactly one entry in the window's
\* listener list, however often init() was called, and a controller that is
\* not initialised (destroy() has been called) has none; so a 'ready' message
\* makes a controller call onReady at most once and acknowledge at most once.
C13_OneSubscription ==
    \A k \in Ctrls :
        ctrl[k].made =>
            /\ life[k].phase = "live" => Subscriptions(k) = 1
            /\ life[k].phase # "live" => Subscriptions(k) = 0
            /\ last.op = "message" =>
                /\ CallsBy(k, "onReady") <= 1
                /\ Len(SentBy(k)) <= 1

\* 'ready' reached a controller initialised twice without destroy(): one
\* call, one acknowledgment
C13_Witness ==
    /\ Matching("A")
    /\ last.before["A"].phase = "live"
    /\ last.before["A"].inits >= 2
    /\ StatusOf(last.event.data) = "ready"
    /\ CallsBy("A", "onReady") = 1
    /\ Len(SentBy("A")) = 1
    /\ Subscriptions("A") = 1

\* url.searchParams.get(key): the value of the first pair named key
Param(url, key) ==
    LET at == {i \in 1..Len(url.query) : url.query[i][1] = key} IN
    IF at = {} THEN Undefined
    ELSE url.query[CHOOSE i \in at : \A j \in at : i <= j][2]

\* C14: after a successful init() the iframe the controller owns has an
\* address whose origin is the trusted origin and whose query says origin =
\* the host page's origin, appId = the configured appId and debug = "1" or "0"
\* as the debug flag is set or not, whatever the container held before.
C14_IframeAddress ==
    \A k \in Ctrls :
        (ctrl[k].made /\ life[k].phase = "live") =>
            LET src == ctrl[k].iframeEl.src IN
            /\ ctrl[k].iframeEl.tag = "iframe"
            /\ URLOrigin(src) = ctrl[k].origin
            /\ Param(src, "origin") = HostOrigin
            /\ Param(src, "appId") = ctrl[k].appId
            /\ Param(src, "debug") = (IF ctrl[k].debug THEN "1" ELSE "0")

\* The origin of the production address
ProdOrigin == URLOrigin(URLParse(ProdText).url)

\* C15: new MivaBDN(options) with baseUrl omitted succeeds, and the base
\* address and the trusted origin of the controller it makes are those of the
\* production address.
C15_DefaultBaseUrl ==
    [][\A options \in Options :
          (options.baseUrl = Omitted /\ Construct("A", options)) =>
              /\ last'.err = NoErr
              /\ ctrl'["A"].made
              /\ URLParse(ctrl'["A"].baseUrl).ok
              /\ URLOrigin(URLParse(ctrl'["A"].baseUrl).url) = ProdOrigin
              /\ ctrl'["A"].origin = ProdOrigin]_vars

\* The acknowledgments controller k sent in the last operation
Acknowledgments(k) == SelectSeq(last.sent, LAMBDA m : Acknowledgment(k, m))

\* C16: when onReady throws while an initialised controller whose iframe has a
\* content window handles a 'ready' message from the trusted origin, exactly
\* one acknowledgment is still sent to the trusted origin.
C16_ThrowKeepsAcknowledgment ==
    \A k \in Ctrls :
        (Matching(k) /\ last.before[k].phase = "live" /\ k \in last.reach
            /\ StatusOf(last.event.data) = "ready"
            /\ ctrl[k].onReady = "throws" /\ CallsBy(k, "onReady") = 1) =>
            Len(Acknowledgments(k)) = 1

\* C17: the delivery of a message event never has an exception escape a
\* controller's handler into the window's dispatch, whatever the message and
\* the state: not when a callback throws, not when the acknowledgment cannot
\* be posted, not when the callback destroyed the controller.
C17_HandlerNeverRaises ==
    last.op = "message" => last.raised = <<>>

\* Controller k holds an iframe that is attached to a container
Mounted(k) == HasContentWindow(World, ctrl[k].iframeEl)

C19_SubscribedIffIframe ==
    \A k \in Ctrls :
        ctrl[k].made =>
            (k \in Range(listeners) <=> ctrl[k].iframeEl # NullEl)

\* init() failed on an initialised controller, which keeps both its
\* subscription and its iframe
C19_Witness ==
    /\ last.op = "init" /\ last.k = "A" /\ last.err # NoErr
    /\ last.before["A"].phase = "live"
    /\ "A" \in Range(listeners)
    /\ ctrl["A"].iframeEl # NullEl

\* C20: every message the last operation sent went to the iframe its sender
\* holds, never through a null reference; and when onReady calls destroy() on
\* the instance, no acknowledgment is sent for that 'ready' message.
C20_NoSendAfterDestroy ==
    /\ \A i \in 1..Len(last.sent) :
          LET m == last.sent[i] IN
          /\ m.to # NullEl.id
          /\ ctrl[m.from].iframeEl # NullEl
          /\ m.to = ctrl[m.from].iframeEl.id
    /\ \A k \in Ctrls :
          (Matching(k) /\ last.before[k].phase = "live"
              /\ StatusOf(last.event.data) = "ready"
              /\ ctrl[k].onReady = "destroys") =>
              /\ CallsBy(k, "onReady") = 1
              /\ SentBy(k) = <<>>

\* onReady destroyed the controller, whose iframe had a content window, and
\* nothing was sent
C20_Witness ==
    /\ Matching("A") /\ last.before["A"].phase = "live"
    /\ "A" \in last.reach
    /\ StatusOf(last.event.data) = "ready"
    /\ ctrl["A"].onReady = "destroys"
    /\ CallsBy("A", "onReady") = 1
    /\ ctrl["A"].iframeEl = NullEl
    /\ last.sent = <<>>

====
